---- MODULE Spec2Model ----
(***************************************************************************)
(* A model of the meet-in-the-middle search engine of                      *)
(* source/enumerate_over_gcf.py: the LHS hash table (LHSHashTable), the    *)
(* GCF key evaluator (efficient_gcf_calculation), the first enumeration,   *)
(* the verification pass, the process-wide table cache, the work split of  *)
(* multi_core_enumeration and the working-precision scopes of find_hits.   *)
(*                                                                         *)
(* Arithmetic is exact: an mpf value is a rational, kept as a numerator    *)
(* over a denominator; Python's int() of a real truncates toward zero.     *)
(* Python indices start at 0, TLA+ sequences at 1: a_[i] is a_[i + 1].     *)
(***************************************************************************)
EXTENDS Integers, Sequences, FiniteSets, TLC

VARIABLES
    \* efficient_gcf_calculation in isolation: its free variables and result
    a_, b_, key_factor, gcf_ret,
    \* LHSHashTable.__init__: its arguments, the dict self.s, the positions of
    \* its two loops (h_pc: "top", "bottom", "done") and what the last
    \* iteration did
    search_range, const_vals, s, c_top_i, c_bottom_i, h_pc, h_last,
    \* __first_enumeration: its arguments, the cached axis (the coefficient
    \* list and the series list of __create_series_list, zipped), the position
    \* of the streaming loop, counter, results and the place in the method
    \* (e_pc: "start", "stream_a", "stream_b", "done", "ZeroDivisionError")
    poly_a, poly_b, print_results, cache, outer_i, counter, results, e_pc,
    \* __refine_results: its argument, the constant values of the pass, and
    \* what it returned (<<>>: not run; <<list>>: the list) on its argument, on
    \* its argument once more, and on its own first output
    intermediate_results, constant_vals, refined, refined_again, refined_refined,
    \* the process-wide cache g_hash_instance (its fields hash and name), the
    \* files by path (<<>>: no file; <<t>>: the pickle of t), the last call of
    \* save or load_from with what it returned or raised, and for every path
    \* the table this process saved to it last (<<>>: none)
    g_hash_instance, files, p_last, saved,
    \* the working precision of mpmath in bits (mp.prec), the precisions the
    \* open workdps scopes restore on exit, the precision the caller of the
    \* engine has set, the place in the life of an EnumerateOverGCF object
    \* (x_pc: "new", "init_build", "ready", "first_pass", "verify", "print",
    \* "rate", "raised"), what happened last, the saved_hash argument of
    \* __init__ (<<>>: None), and in print_results the convergence_rate
    \* argument and the position of its loop
    mp_prec, origp, caller_prec, x_pc, x_last, saved_hash, convergence_rate, x_i,
    \* multi_core_enumeration_wrapper: its arguments and the name of the
    \* operating system, its place (w_pc: "start", "run", "present",
    \* "returned", "raised"), its locals saved_hash, manual_splits_size and
    \* results, for every worker index what the call of
    \* multi_core_enumeration did, and what the wrapper returned (<<>>: not
    \* yet) or raised
    w_args, w_pc, w_saved_hash, w_splits, w_results, workers, w_ret, w_raised

gvars == <<a_, b_, gcf_ret>>
hvars == <<key_factor, search_range, const_vals, s, c_top_i, c_bottom_i, h_pc, h_last>>
evars == <<poly_a, poly_b, print_results, cache, outer_i, counter, results, e_pc>>
rvars == <<intermediate_results, constant_vals, refined, refined_again, refined_refined>>
pvars == <<g_hash_instance, files, p_last, saved>>
xvars == <<mp_prec, origp, caller_prec, x_pc, x_last, saved_hash, convergence_rate, x_i>>
wvars == <<w_args, w_pc, w_saved_hash, w_splits, w_results, workers, w_ret, w_raised>>
vars == <<gvars, hvars, evars, rvars, pvars, xvars, wvars>>

\* what the actions of each part leave alone
NotGcf == <<search_range, const_vals, s, c_top_i, c_bottom_i, h_pc, h_last,
            evars, rvars, pvars, xvars, wvars>>
NotHash == <<gvars, evars, rvars, pvars, xvars, wvars>>
NotEnum == <<gvars, hvars, rvars, pvars, xvars, wvars>>
NotRefine == <<gvars, hvars, evars, pvars, xvars, wvars>>
NotPersist == <<gvars, hvars, evars, rvars, xvars, wvars>>
NotWrapper == <<gvars, hvars, evars, rvars, xvars>>

EmptyDict == [k \in {} |-> <<>>]

\* the parts of the state a specification does not use
GcfIdle == a_ = <<>> /\ b_ = <<>> /\ gcf_ret = <<>>

HashIdle ==
    /\ search_range = 0 /\ const_vals = <<>> /\ s = EmptyDict
    /\ c_top_i = 0 /\ c_bottom_i = 0 /\ h_pc = "idle" /\ h_last = "idle"

RefineIdle ==
    /\ intermediate_results = <<>> /\ constant_vals = <<>> /\ refined = <<>>
    /\ refined_again = <<>> /\ refined_refined = <<>>

EnumIdle ==
    /\ poly_a = <<>> /\ poly_b = <<>> /\ print_results = FALSE /\ cache = <<>>
    /\ outer_i = 0 /\ counter = 0 /\ results = <<>> /\ e_pc = "idle"

\* the paths of the model
Paths == {"tmp_hash.p", "e_2.p"}

\* GlobalHashTableInstance(): self.hash = {}, self.name = ''
GlobalHashTableInstance == [hash |-> [type |-> "dict"], name |-> ""]

\* no call of save or load_from yet
NoCall == [op |-> "none", name |-> "", ret |-> <<>>, raised |-> ""]

WrapperIdle ==
    /\ w_args = <<>> /\ w_pc = "idle" /\ w_saved_hash = "" /\ w_splits = <<>>
    /\ w_results = <<>> /\ workers = <<>> /\ w_ret = <<>> /\ w_raised = ""

\* the default precision of mpmath: 53 bits (15 digits)
DefaultPrec == 53

PrecisionIdle ==
    /\ mp_prec = DefaultPrec /\ origp = <<>> /\ caller_prec = DefaultPrec
    /\ x_pc = "idle" /\ x_last = "idle" /\ saved_hash = <<>>
    /\ convergence_rate = FALSE /\ x_i = 0

PersistIdle ==
    /\ g_hash_instance = GlobalHashTableInstance
    /\ files = [p \in Paths |-> <<>>]
    /\ p_last = NoCall
    /\ saved = [p \in Paths |-> <<>>]

----------------------------------------------------------------------------
(* Bounds of the model *)

\* longest a_/b_ sequence given to the GCF evaluator on its own
MaxGcfLen == 3
\* key_factor = 1 / threshold = 10^digits; digits ranges over 1..MaxKeyDigits
MaxKeyDigits == 2
\* search_range (the LHS coefficient limit) ranges over 1..MaxRange
MaxRange == 2
\* the number of terms of the series of the first enumeration (32 in the
\* program: g_N_initial_search_terms and the literal of the streaming loops)
InitialTerms == 3
\* the number of terms of the series of the verification (1000 in the
\* program: g_N_verify_terms)
VerifyTerms == 4
\* the significant decimal digits the verification compares (100 in the
\* program)
VerifyDigits == 2
\* the longest list of Matches handed to __refine_results on its own
MaxMatches == 3
\* the number of workers (num_cores) goes up to MaxCores
MaxCores == 2
\* manual tiles have 1..MaxTileDims sizes, each in 1..MaxTile
MaxTile == 2
MaxTileDims == 2

----------------------------------------------------------------------------
(* Arithmetic *)

Abs(x) == IF x < 0 THEN -x ELSE x

RECURSIVE Pow10(_)
Pow10(d) == IF d = 0 THEN 1 ELSE 10 * Pow10(d - 1)

\* int(n / d) for d # 0: Python's int() of a real drops the fraction
\* (rounds toward zero)
IntTrunc(n, d) ==
    IF (n < 0) = (d < 0) THEN Abs(n) \div Abs(d) ELSE -(Abs(n) \div Abs(d))

\* the floor of n / d for d # 0
Floor(n, d) == IF d > 0 THEN n \div d ELSE (-n) \div (-d)

KeyFactors == {Pow10(d) : d \in 1..MaxKeyDigits}

\* math.gcd: never negative, gcd(0, 0) = 0
RECURSIVE gcd(_, _)
gcd(x, y) == IF y = 0 THEN Abs(x) ELSE gcd(y, x % Abs(y))

\* reduce(gcd, t) for a non-empty tuple t
RECURSIVE ReduceGcdFrom(_, _, _)
ReduceGcdFrom(t, i, acc) ==
    IF i > Len(t) THEN acc ELSE ReduceGcdFrom(t, i + 1, gcd(acc, t[i]))

ReduceGcd(t) == ReduceGcdFrom(t, 2, t[1])

\* An mpf value is a rational <<numerator, denominator>>, denominator > 0
RInt(i) == <<i, 1>>
RAdd(x, y) == <<x[1] * y[2] + y[1] * x[2], x[2] * y[2]>>
RScale(i, x) == <<i * x[1], x[2]>>
\* x / y for y # 0
RDiv(x, y) ==
    IF y[1] > 0 THEN <<x[1] * y[2], x[2] * y[1]>>
    ELSE <<-(x[1] * y[2]), -(x[2] * y[1])>>
REq(x, y) == x[1] * y[2] = y[1] * x[2]

\* int(val * key_factor)
KeyOf(val, kf) == IntTrunc(val[1] * kf, val[2])

----------------------------------------------------------------------------
(* LHSHashTable *)

\* range(-search_range, search_range + 1)
CoefRange(R) == (-R)..R

\* the idx-th (from 0) tuple of itertools.product(*[range(-R, R + 1)] * n):
\* lexicographic order, the last component running fastest
RECURSIVE ProductAt(_, _, _)
ProductAt(idx, n, R) ==
    IF n = 0 THEN <<>>
    ELSE Append(ProductAt(idx \div (2 * R + 1), n - 1, R),
                (idx % (2 * R + 1)) - R)

RECURSIVE IntPow(_, _)
IntPow(x, n) == IF n = 0 THEN 1 ELSE x * IntPow(x, n - 1)

\* the number of tuples of the product
ProductSize(n, R) == IntPow(2 * R + 1, n)

\* the blacklist built from the positive coefficients only
RationalBlacklistPositive(R, kf) ==
    LET rational_keys == {IntTrunc(p * kf, q) : p \in 1..R, q \in 1..R}
    IN  rational_keys \cup {x + 1 : x \in rational_keys}
                      \cup {x - 1 : x \in rational_keys}

\* rational_blacklist: the keys of p/q for p, q in [-R, R] \ {0}, each with
\* its two neighbours
RationalBlacklist(R, kf) ==
    LET coef_possibilities == CoefRange(R) \ {0}
        rational_keys == {IntTrunc(p * kf, q) :
                             p \in coef_possibilities, q \in coef_possibilities}
    IN  rational_keys \cup {x + 1 : x \in rational_keys}
                      \cup {x - 1 : x \in rational_keys}

\* constants = [mpmath.mpf(1)] + const_vals
Constants(consts) == <<RInt(1)>> \o consts

\* sum(i * j for (i, j) in zip(c, constants))
RECURSIVE SumZipFrom(_, _, _, _)
SumZipFrom(c, constants, i, acc) ==
    IF i > Len(c) \/ i > Len(constants) THEN acc
    ELSE SumZipFrom(c, constants, i + 1, RAdd(acc, RScale(c[i], constants[i])))

SumZip(c, constants) == SumZipFrom(c, constants, 1, RInt(0))

\* prod with the coefficient index not advanced past the constant term
RECURSIVE ProdSameIndexFrom(_, _, _, _)
ProdSameIndexFrom(coefs, consts, i, ret) ==
    IF i > Len(consts) THEN ret
    ELSE ProdSameIndexFrom(coefs, consts, i + 1, RAdd(ret, RScale(coefs[i], consts[i])))

ProdSameIndex(coefs, consts) == ProdSameIndexFrom(coefs, consts, 1, RInt(coefs[1]))

\* LHSHashTable.prod: ret = coefs[0]; ret += consts[i] * coefs[i + 1]
RECURSIVE ProdFrom(_, _, _, _)
ProdFrom(coefs, consts, i, ret) ==
    IF i > Len(consts) THEN ret
    ELSE ProdFrom(coefs, consts, i + 1, RAdd(ret, RScale(coefs[i + 1], consts[i])))

prod(coefs, consts) == ProdFrom(coefs, consts, 1, RInt(coefs[1]))

\* LHSHashTable.evaluate for a stored pair; <<>> stands for ZeroDivisionError
evaluate(entry, constant_values) ==
    LET numerator == prod(entry[1], constant_values)
        denominator == prod(entry[2], constant_values)
    IN  IF denominator[1] = 0 THEN <<>> ELSE RDiv(numerator, denominator)

\* a store that keeps the pair a key already has
StoreFirst(table, key, entry) ==
    [k \in DOMAIN table \cup {key} |-> IF k \in DOMAIN table THEN table[k] ELSE entry]

\* self.s[key] = c_top, c_bottom
Store(table, key, entry) ==
    [k \in DOMAIN table \cup {key} |-> IF k = key THEN entry ELSE table[k]]

\* an inner loop body without the test of the gcd
InnerBodyNoGcd(table, c_top, c_bottom, consts, kf, blacklist) ==
    LET numerator == SumZip(c_top, Constants(consts))
        denominator == SumZip(c_bottom, Constants(consts))
    IN  IF denominator[1] = 0
        THEN [s |-> table, did |-> "zero_denominator"]
        ELSE LET key == KeyOf(RDiv(numerator, denominator), kf) IN
             IF key \in blacklist
             THEN [s |-> table, did |-> "blacklisted"]
             ELSE [s |-> Store(table, key, <<c_top, c_bottom>>), did |-> "stored"]

\* the body of the inner loop for one (c_top, c_bottom): the dict afterwards
\* and the branch taken
InnerBody(table, c_top, c_bottom, consts, kf, blacklist) ==
    LET numerator == SumZip(c_top, Constants(consts))
        denominator == SumZip(c_bottom, Constants(consts))
    IN  IF ReduceGcd(c_top \o c_bottom) # 1
        THEN [s |-> table, did |-> "not_coprime"]
        ELSE IF denominator[1] = 0
        THEN [s |-> table, did |-> "zero_denominator"]
        ELSE LET key == KeyOf(RDiv(numerator, denominator), kf) IN
             IF key \in blacklist
             THEN [s |-> table, did |-> "blacklisted"]
             ELSE [s |-> Store(table, key, <<c_top, c_bottom>>), did |-> "stored"]

\* the whole constructor, loop by loop
RECURSIVE InnerLoop(_, _, _, _, _, _, _)
InnerLoop(table, c_top, bi, R, consts, kf, blacklist) ==
    IF bi >= ProductSize(Len(consts) + 1, R) THEN table
    ELSE LET after == InnerBody(table, c_top, ProductAt(bi, Len(consts) + 1, R),
                                consts, kf, blacklist).s
         IN  \* (the test only makes TLC compute the dict before it goes on)
             IF DOMAIN after = {} \/ TRUE
             THEN InnerLoop(after, c_top, bi + 1, R, consts, kf, blacklist)
             ELSE table

RECURSIVE OuterLoop(_, _, _, _, _, _)
OuterLoop(table, ti, R, consts, kf, blacklist) ==
    IF ti >= ProductSize(Len(consts) + 1, R) THEN table
    ELSE LET c_top == ProductAt(ti, Len(consts) + 1, R)
             after == IF SumZip(c_top, Constants(consts))[1] <= 0 THEN table
                      ELSE InnerLoop(table, c_top, 0, R, consts, kf, blacklist)
         IN  IF DOMAIN after = {} \/ TRUE
             THEN OuterLoop(after, ti + 1, R, consts, kf, blacklist)
             ELSE table

LHSHashTable(R, consts, kf) ==
    OuterLoop(EmptyDict, 0, R, consts, kf, RationalBlacklist(R, kf))

\* constant values at the working precision: e, pi and zeta(3) to a few bits
ConstE == <<19, 7>>
ConstPi == <<22, 7>>
ConstZeta3 == <<6, 5>>

\* a constructed table
HashBuilt(R, consts, kf) ==
    /\ search_range = R /\ const_vals = consts /\ key_factor = kf
    /\ s = LHSHashTable(R, consts, kf)
    /\ c_top_i = ProductSize(Len(consts) + 1, R) /\ c_bottom_i = 0
    /\ h_pc = "done" /\ h_last = "built"

----------------------------------------------------------------------------
(* LHSHashTable: __eq__, save, load_from and the global instance *)

\* a table object: self.threshold (1 / key_factor) and self.s
TableObject(R, consts, kf) ==
    [type |-> "LHSHashTable", threshold |-> <<1, kf>>, s |-> LHSHashTable(R, consts, kf)]

\* LHSHashTable.__eq__
TableEq(self, other) ==
    IF other.type # self.type THEN FALSE
    ELSE /\ self.threshold = other.threshold
         /\ DOMAIN self.s = DOMAIN other.s

\* LHSHashTable.save(self, name): the global instance and the files afterwards
save(self, name, g, f) ==
    [g |-> IF g.name # name THEN [hash |-> self, name |-> name] ELSE g,
     files |-> [f EXCEPT ![name] = <<self>>]]

\* LHSHashTable.load_from(name): the global instance afterwards and what the
\* call returns (<<object>>) or raises
load_from(name, g, f) ==
    IF g.name = name
    THEN [g |-> g, ret |-> <<g.hash>>, raised |-> ""]
    ELSE IF f[name] = <<>>
    THEN [g |-> g, ret |-> <<>>, raised |-> "FileNotFoundError"]
    ELSE [g |-> [hash |-> f[name][1], name |-> name],
          ret |-> f[name], raised |-> ""]

----------------------------------------------------------------------------
(* efficient_gcf_calculation: the closure of __first_enumeration *)

GcfStart(a) == [prev_q |-> 0, q |-> 1, prev_p |-> 1, p |-> a[1]]

\* a loop body with the two saved values exchanged (prev_q = tmp_b, prev_p = tmp_a)
GcfIterSwapped(st, a, b, i) ==
    [prev_q |-> st.p,
     q |-> a[i + 1] * st.q + b[i] * st.prev_q,
     prev_p |-> st.q,
     p |-> a[i + 1] * st.p + b[i] * st.prev_p]

\* one iteration of the loop, for Python index i
GcfIter(st, a, b, i) ==
    [prev_q |-> st.q,
     q |-> a[i + 1] * st.q + b[i] * st.prev_q,
     prev_p |-> st.p,
     p |-> a[i + 1] * st.p + b[i] * st.prev_p]

\* a loop that stops one term early: for i in range(1, len(a_) - 1)
RECURSIVE GcfLoopShort(_, _, _, _)
GcfLoopShort(st, a, b, i) ==
    IF i >= Len(a) - 1 THEN st ELSE GcfLoopShort(GcfIter(st, a, b, i), a, b, i + 1)

\* for i in range(1, len(a_))
RECURSIVE GcfLoop(_, _, _, _)
GcfLoop(st, a, b, i) ==
    IF i >= Len(a) THEN st ELSE GcfLoop(GcfIter(st, a, b, i), a, b, i + 1)

GcfFinal(a, b) == GcfLoop(GcfStart(a), a, b, 1)

\* if q == 0: value = 0 else value = p / q; return int(value * key_factor)
GcfKey(st, kf) ==
    IF st.q = 0 THEN IntTrunc(0 * kf, 1) ELSE IntTrunc(st.p * kf, st.q)

efficient_gcf_calculation(a, b, kf) == GcfKey(GcfFinal(a, b), kf)

----------------------------------------------------------------------------
(* The series generators (CartesianProductAnGenerator and                    *)
(* CartesianProductBnGenerator of series_generators)                         *)

\* get_iterator: the Cartesian product of the coefficient ranges of a compact
\* polynomial, in lexicographic order, as a list
RECURSIVE get_iterator(_)
get_iterator(poly) ==
    IF Len(poly) = 0 THEN << <<>> >>
    ELSE LET init == get_iterator(SubSeq(poly, 1, Len(poly) - 1))
             last == poly[Len(poly)]
             n == Len(last)
         IN  [i \in 1..(Len(init) * n) |->
                 Append(init[((i - 1) \div n) + 1], last[((i - 1) % n) + 1])]

\* get_num_iterations: the number of coefficient vectors
RECURSIVE get_num_iterations(_)
get_num_iterations(poly) ==
    IF Len(poly) = 0 THEN 1
    ELSE Len(poly[1]) * get_num_iterations(Tail(poly))

\* the compact polynomial n(n(...(n c_k + c_{k-1})...) + c_1) + c_0 at n
RECURSIVE CompactPoly(_, _, _)
CompactPoly(coefs, i, n) ==
    IF i > Len(coefs) THEN 0 ELSE coefs[i] + n * CompactPoly(coefs, i + 1, n)

\* the generator function: the polynomial at n = 1..N
create_an_series(coefs, N) == [n \in 1..N |-> CompactPoly(coefs, 1, n)]
create_bn_series(coefs, N) == [n \in 1..N |-> CompactPoly(coefs, 1, n)]

----------------------------------------------------------------------------
(* EnumerateOverGCF.__first_enumeration *)

g_N_initial_search_terms == InitialTerms
\* the literal 32 of create_an_series(a_coef, 32), create_bn_series(b_coef, 32)
StreamTerms == InitialTerms

\* a Match with the two coefficient vectors exchanged
MatchSwapped(key, a_coef, b_coef) ==
    [lhs_key |-> key, rhs_an_poly |-> b_coef, rhs_bn_poly |-> a_coef]

Match(key, a_coef, b_coef) ==
    [lhs_key |-> key, rhs_an_poly |-> a_coef, rhs_bn_poly |-> b_coef]

SeqRange(q) == {q[i] : i \in DOMAIN q}

\* 0 in an
ZeroIn(series) == 0 \in SeqRange(series)
\* a test that takes a_0 for a forbidden zero too
ZeroInFrom0(series) == \E i \in 1..Len(series) : series[i] = 0
\* 0 in an[1:]
ZeroInFrom1(series) == \E i \in 2..Len(series) : series[i] = 0

\* the series generator handed to __create_series_list
SeriesOf(which, coefs, N) ==
    IF which = "an" THEN create_an_series(coefs, N) ELSE create_bn_series(coefs, N)

\* __create_series_list with filter_from_1 ignored: every zero filters
create_series_list_filter_all(coef_list, which, filter_from_1) ==
    SelectSeq([i \in 1..Len(coef_list) |->
                  [coef |-> coef_list[i],
                   series |-> SeriesOf(which, coef_list[i], g_N_initial_search_terms)]],
              LAMBDA c : ~ZeroIn(c.series))

\* __create_series_list: the coefficient vectors and their series, without
\* those whose series holds a 0 (from position 1 on when filter_from_1)
create_series_list(coef_list, which, filter_from_1) ==
    SelectSeq([i \in 1..Len(coef_list) |->
                  [coef |-> coef_list[i],
                   series |-> SeriesOf(which, coef_list[i], g_N_initial_search_terms)]],
              LAMBDA c : IF filter_from_1 THEN ~ZeroInFrom1(c.series)
                         ELSE ~ZeroIn(c.series))

\* for bn_coef in zip(bn_list, b_coef_list): the Matches of one a_coef, from
\* the j-th cached {bn} on
RECURSIVE ProbeCachedB(_, _, _, _, _, _)
ProbeCachedB(a_coef, an, cached, j, table, kf) ==
    IF j > Len(cached) THEN <<>>
    ELSE LET key == efficient_gcf_calculation(an, cached[j].series, kf)
             rest == ProbeCachedB(a_coef, an, cached, j + 1, table, kf)
         IN  IF key \in DOMAIN table
             THEN <<Match(key, a_coef, cached[j].coef)>> \o rest
             ELSE rest

\* for an_coef in zip(an_list, a_coef_list): the Matches of one b_coef
RECURSIVE ProbeCachedA(_, _, _, _, _, _)
ProbeCachedA(b_coef, bn, cached, j, table, kf) ==
    IF j > Len(cached) THEN <<>>
    ELSE LET key == efficient_gcf_calculation(cached[j].series, bn, kf)
             rest == ProbeCachedA(b_coef, bn, cached, j + 1, table, kf)
         IN  IF key \in DOMAIN table
             THEN <<Match(key, cached[j].coef, b_coef)>> \o rest
             ELSE rest

\* one iteration of "for a_coef in a_coef_iter": skipped (0 in an[1:]) or
\* the inner loop over the cached {bn}
StreamA(a_coef, cached, table, kf) ==
    LET an == create_an_series(a_coef, StreamTerms) IN
    IF ZeroInFrom1(an) THEN [skipped |-> TRUE, found |-> <<>>]
    ELSE [skipped |-> FALSE, found |-> ProbeCachedB(a_coef, an, cached, 1, table, kf)]

\* one iteration of "for b_coef in b_coef_iter": skipped (0 in bn) or the
\* inner loop over the cached {an}
StreamB(b_coef, cached, table, kf) ==
    LET bn == create_bn_series(b_coef, StreamTerms) IN
    IF ZeroIn(bn) THEN [skipped |-> TRUE, found |-> <<>>]
    ELSE [skipped |-> FALSE, found |-> ProbeCachedA(b_coef, bn, cached, 1, table, kf)]

\* the results of the whole branch "size_a > size_b" (cache {bn}, iterate
\* over an), from the i-th a_coef on
RECURSIVE BranchCacheB(_, _, _, _, _)
BranchCacheB(a_coefs, i, cached, table, kf) ==
    IF i > Len(a_coefs) THEN <<>>
    ELSE StreamA(a_coefs[i], cached, table, kf).found
         \o BranchCacheB(a_coefs, i + 1, cached, table, kf)

\* the results of the whole else branch (cache {an}, iterate over bn)
RECURSIVE BranchCacheA(_, _, _, _, _)
BranchCacheA(b_coefs, i, cached, table, kf) ==
    IF i > Len(b_coefs) THEN <<>>
    ELSE StreamB(b_coefs[i], cached, table, kf).found
         \o BranchCacheA(b_coefs, i + 1, cached, table, kf)

\* num_iterations = (num_iterations // self.get_bn_length(poly_b)) * ... and
\* its like in the else branch: the division raises ZeroDivisionError when the
\* axis to cache has no coefficient vector
FirstEnumerationRaises(pa, pb) ==
    IF get_num_iterations(pa) > get_num_iterations(pb)
    THEN get_num_iterations(pb) = 0
    ELSE get_num_iterations(pa) = 0

FirstEnumerationCacheB(pa, pb, table, kf) ==
    BranchCacheB(get_iterator(pa), 1, create_series_list(get_iterator(pb), "bn", FALSE), table, kf)

FirstEnumerationCacheA(pa, pb, table, kf) ==
    BranchCacheA(get_iterator(pb), 1, create_series_list(get_iterator(pa), "an", TRUE), table, kf)

\* the branch the method takes
first_enumeration(pa, pb, table, kf) ==
    IF get_num_iterations(pa) > get_num_iterations(pb)
    THEN FirstEnumerationCacheB(pa, pb, table, kf)
    ELSE FirstEnumerationCacheA(pa, pb, table, kf)

----------------------------------------------------------------------------
(* EnumerateOverGCF.__refine_results *)

g_N_verify_terms == VerifyTerms

\* mobius.EfficientGCF(an, bn).evaluate(): the recurrence of
\* efficient_gcf_calculation (which was moved from there), and p / q
EfficientGCF_evaluate(an, bn) ==
    LET st == GcfFinal(an, bn) IN
    IF st.q = 0 THEN RInt(0) ELSE RDiv(RInt(st.p), RInt(st.q))

\* n / d >= 1 brought into [10^(digits-1), 10^digits) by powers of ten:
\* <<n, d, e>> with n / d * 10^e the value
RECURSIVE Normalise(_, _, _, _)
Normalise(n, d, e, digits) ==
    IF n >= d * Pow10(digits) THEN Normalise(n, d * 10, e + 1, digits)
    ELSE IF n < d * Pow10(digits - 1) THEN Normalise(n * 10, d, e - 1, digits)
    ELSE <<n, d, e>>

\* mpmath.nstr(x, digits): the decimal string of x rounded to that many
\* significant digits, as <<sign, digits as an integer, exponent of ten>>
nstr(x, digits) ==
    IF x[1] = 0 THEN <<0, 0, 0>>
    ELSE LET m == Normalise(Abs(x[1]), x[2], 0, digits)
             rounded == (2 * m[1] + m[2]) \div (2 * m[2])
             sign == IF x[1] < 0 THEN -1 ELSE 1
         IN  IF rounded = Pow10(digits)
             THEN <<sign, Pow10(digits - 1), m[3] + 1>>
             ELSE <<sign, rounded, m[3]>>

\* the test of one Match r: "skip" (ZeroDivisionError of the LHS), "reject"
\* or "accept" (val_str == rhs_str)
RefineOne(r, table, consts) ==
    LET val == evaluate(table[r.lhs_key], consts) IN
    IF val = <<>> THEN "skip"
    ELSE LET an == create_an_series(r.rhs_an_poly, g_N_verify_terms)
             bn == create_bn_series(r.rhs_bn_poly, g_N_verify_terms)
             val_str == nstr(val, VerifyDigits)
             rhs_str == nstr(EfficientGCF_evaluate(an, bn), VerifyDigits)
         IN  IF val_str = rhs_str THEN "accept" ELSE "reject"

\* a loop that puts an accepted Match in front of results
RECURSIVE RefineLoopPrepend(_, _, _, _, _)
RefineLoopPrepend(M, i, acc, table, consts) ==
    IF i > Len(M) THEN acc
    ELSE RefineLoopPrepend(M, i + 1,
                    IF RefineOne(M[i], table, consts) = "accept"
                    THEN <<M[i]>> \o acc ELSE acc,
                    table, consts)

\* for r in intermediate_results: ... results.append(r)
RECURSIVE RefineLoop(_, _, _, _, _)
RefineLoop(M, i, acc, table, consts) ==
    IF i > Len(M) THEN acc
    ELSE RefineLoop(M, i + 1,
                    IF RefineOne(M[i], table, consts) = "accept"
                    THEN Append(acc, M[i]) ELSE acc,
                    table, consts)

refine_results(M, table, consts) == RefineLoop(M, 1, <<>>, table, consts)

----------------------------------------------------------------------------
(* The working precision: mpmath.workdps and the precisions of the engine *)

\* self.enum_dps, self.verify_dps
enum_dps == 50
verify_dps == 2000

\* log2(10) = 3.3219..., as Log2Of10 / Log2Of10Den
Log2Of10 == 33219
Log2Of10Den == 10000

\* round() of a positive n / d
Round(n, d) == (2 * n + d) \div (2 * d)

Max(x, y) == IF x >= y THEN x ELSE y

\* mpmath's dps_to_prec: max(1, int(round((int(n) + 1) * 3.3219280948873626)))
dps_to_prec(n) == Max(1, Round((n + 1) * Log2Of10, Log2Of10Den))

\* mpmath's prec_to_dps: max(1, int(round(int(n) / 3.3219280948873626) - 1))
prec_to_dps(n) == Max(1, Round(n * Log2Of10Den, Log2Of10) - 1)

\* mp.dps
Dps == prec_to_dps(mp_prec)

\* with mpmath.workdps(n): on entry the precision is kept for the exit and
\* mp.dps is set to n
WorkdpsEnter(prec, stack, n) ==
    [prec |-> dps_to_prec(n), origp |-> Append(stack, prec)]

\* an exit that keeps the precision of the scope
WorkdpsExitKeep(prec, stack) ==
    [prec |-> prec, origp |-> SubSeq(stack, 1, Len(stack) - 1)]

\* the end of the with block, reached by falling through, by return or by
\* an exception: the precision kept on entry is set again
WorkdpsExit(prec, stack) ==
    [prec |-> stack[Len(stack)], origp |-> SubSeq(stack, 1, Len(stack) - 1)]

----------------------------------------------------------------------------
(* EnumerateOverGCF.find_hits as a function of its arguments *)

\* e at the precision of the verification
ConstEVerify == <<87, 32>>

\* the value of a constant at the precision of the verification
ConstVerify(c) == IF c = ConstE THEN ConstEVerify ELSE c

\* what find_hits returns, or the exception it raises
find_hits(pa, pb, table, kf, consts) ==
    IF FirstEnumerationRaises(pa, pb)
    THEN [raised |-> "ZeroDivisionError", results |-> <<>>]
    ELSE [raised |-> "",
          results |-> refine_results(first_enumeration(pa, pb, table, kf), table,
                                     [i \in DOMAIN consts |-> ConstVerify(consts[i])])]

----------------------------------------------------------------------------
(* multi_core_enumeration: the function each worker runs *)

Min(x, y) == IF x <= y THEN x ELSE y

\* lst[lo:hi] and lst[lo:] of Python, for 0 <= lo <= hi
PySlice(lst, lo, hi) == SubSeq(lst, Min(lo, Len(lst)) + 1, Min(hi, Len(lst)))
PySliceFrom(lst, lo) == SubSeq(lst, Min(lo, Len(lst)) + 1, Len(lst))

\* for s in range(len(splits_size)): poly_a[s] = poly_a[s][...]: the poly_a
\* of worker index, for len(splits_size) <= len(poly_a)
Slab(pa, splits_size, num_cores, index) ==
    [d \in DOMAIN pa |->
        IF d > Len(splits_size) THEN pa[d]
        ELSE IF index = num_cores - 1
        THEN PySliceFrom(pa[d], index * splits_size[d])
        ELSE PySlice(pa[d], index * splits_size[d], (index + 1) * splits_size[d])]

\* multi_core_enumeration(..., index) in a process whose global instance is
\* g: what the call did (status "done" or the exception it raised), the
\* poly_a it searched, its results, and the global instance afterwards
multi_core_enumeration(args, saved_hash_path, splits_size, index, g, f) ==
    IF Len(splits_size) > Len(args.poly_a)
    THEN [status |-> "IndexError", poly_a |-> <<>>, results |-> <<>>, g |-> g]
    ELSE LET slab == Slab(args.poly_a, splits_size, args.num_cores, index) IN
    IF args.create_an_series = "None"
    THEN \* EnumerateOverGCF.__init__: an_generator.get_function()
         [status |-> "AttributeError", poly_a |-> slab, results |-> <<>>, g |-> g]
    ELSE LET load == load_from(saved_hash_path, g, f) IN
    IF load.raised # ""
    THEN [status |-> load.raised, poly_a |-> slab, results |-> <<>>, g |-> load.g]
    ELSE LET hits == find_hits(slab, args.poly_b, load.ret[1].s,
                               args.key_factor, args.sym_constant)
         IN  [status |-> IF hits.raised # "" THEN hits.raised ELSE "done",
              poly_a |-> slab, results |-> hits.results, g |-> load.g]

----------------------------------------------------------------------------
(* Specification SpecGcf: the evaluator applied to arbitrary sequences *)

ATerms == -2..2
BTerms == -2..2

GcfInit ==
    /\ \E n \in 1..MaxGcfLen :
          /\ a_ \in [1..n -> ATerms]
          /\ b_ \in [1..n -> BTerms]
    /\ key_factor \in KeyFactors
    /\ gcf_ret = <<>>

\* one call: gcf_ret holds the p and q left by the loop and the returned key
GcfCall ==
    /\ gcf_ret = <<>>
    /\ LET st == GcfFinal(a_, b_) IN
          gcf_ret' = <<[p |-> st.p, q |-> st.q, key |-> GcfKey(st, key_factor)]>>
    /\ UNCHANGED <<a_, b_, key_factor>>
    /\ UNCHANGED NotGcf

----------------------------------------------------------------------------
(* Specification SpecHash: LHSHashTable.__init__, one loop iteration a step *)

\* the constructor's arguments: one constant with every range, two
\* constants with range 1
LhsInputs ==
    {[search_range |-> R, const_vals |-> <<c>>] :
        R \in 1..MaxRange, c \in {ConstE, ConstPi, ConstZeta3}}
    \cup {[search_range |-> 1, const_vals |-> <<ConstE, ConstPi>>]}

NumCoefs == Len(const_vals) + 1
c_top == ProductAt(c_top_i, NumCoefs, search_range)
c_bottom == ProductAt(c_bottom_i, NumCoefs, search_range)

HashInit ==
    /\ \E in \in LhsInputs :
          /\ search_range = in.search_range
          /\ const_vals = in.const_vals
    /\ key_factor \in KeyFactors
    /\ s = EmptyDict
    /\ c_top_i = 0
    /\ c_bottom_i = 0
    /\ h_pc = "top"
    /\ h_last = "start"

\* for c_top in coef_top_list: numerator <= 0, continue
HashSkipTop ==
    /\ h_pc = "top"
    /\ c_top_i < ProductSize(NumCoefs, search_range)
    /\ SumZip(c_top, Constants(const_vals))[1] <= 0
    /\ c_top_i' = c_top_i + 1
    /\ h_last' = "not_positive"
    /\ UNCHANGED <<search_range, const_vals, key_factor, s, c_bottom_i, h_pc>>
    /\ UNCHANGED NotHash

\* numerator > 0: enter the inner loop
HashEnterTop ==
    /\ h_pc = "top"
    /\ c_top_i < ProductSize(NumCoefs, search_range)
    /\ SumZip(c_top, Constants(const_vals))[1] > 0
    /\ c_bottom_i' = 0
    /\ h_pc' = "bottom"
    /\ h_last' = "positive"
    /\ UNCHANGED <<search_range, const_vals, key_factor, s, c_top_i>>
    /\ UNCHANGED NotHash

\* one iteration of the inner loop; after the last c_bottom the outer loop
\* moves on
HashPair ==
    /\ h_pc = "bottom"
    /\ LET r == InnerBody(s, c_top, c_bottom, const_vals, key_factor,
                          RationalBlacklist(search_range, key_factor))
       IN  /\ s' = r.s
           /\ h_last' = r.did
    /\ IF c_bottom_i + 1 < ProductSize(NumCoefs, search_range)
       THEN /\ c_bottom_i' = c_bottom_i + 1
            /\ UNCHANGED <<c_top_i, h_pc>>
       ELSE /\ c_top_i' = c_top_i + 1
            /\ h_pc' = "top"
            /\ UNCHANGED c_bottom_i
    /\ UNCHANGED <<search_range, const_vals, key_factor>>
    /\ UNCHANGED NotHash

\* the outer loop is exhausted: the constructor returns
HashDone ==
    /\ h_pc = "top"
    /\ c_top_i >= ProductSize(NumCoefs, search_range)
    /\ h_pc' = "done"
    /\ UNCHANGED <<search_range, const_vals, key_factor, s, c_top_i, c_bottom_i, h_last>>
    /\ UNCHANGED NotHash

HashNext == HashSkipTop \/ HashEnterTop \/ HashPair \/ HashDone

----------------------------------------------------------------------------
(* Specification SpecEnum: __first_enumeration, one iteration of the         *)
(* streaming loop a step                                                     *)

\* the coefficient ranges of a compact polynomial
CoefLists == {<<0, 1>>, <<-1, 0, 1>>, <<1, 2>>, <<-1>>}
PolySpecs ==
    {<<r0, r1>> : r0 \in CoefLists, r1 \in CoefLists} \cup {<< <<>>, <<0, 1>> >>}

EnumInit ==
    /\ \E R \in 1..MaxRange, kf \in KeyFactors : HashBuilt(R, <<ConstE>>, kf)
    /\ poly_a \in PolySpecs
    /\ poly_b \in PolySpecs
    /\ print_results \in BOOLEAN
    /\ cache = <<>>
    /\ outer_i = 1
    /\ counter = 0
    /\ results = <<>>
    /\ e_pc = "start"

\* size_a > size_b: cache {bn} in RAM, iterate over an
EnumCacheB ==
    /\ e_pc = "start"
    /\ get_num_iterations(poly_a) > get_num_iterations(poly_b)
    /\ ~FirstEnumerationRaises(poly_a, poly_b)
    /\ cache' = create_series_list(get_iterator(poly_b), "bn", FALSE)
    /\ e_pc' = "stream_a"
    /\ UNCHANGED <<poly_a, poly_b, print_results, outer_i, counter, results>>
    /\ UNCHANGED NotEnum

\* else: cache {an} in RAM, iterate over bn
EnumCacheA ==
    /\ e_pc = "start"
    /\ ~(get_num_iterations(poly_a) > get_num_iterations(poly_b))
    /\ ~FirstEnumerationRaises(poly_a, poly_b)
    /\ cache' = create_series_list(get_iterator(poly_a), "an", TRUE)
    /\ e_pc' = "stream_b"
    /\ UNCHANGED <<poly_a, poly_b, print_results, outer_i, counter, results>>
    /\ UNCHANGED NotEnum

\* the division by the size of the axis to cache raises
EnumZeroDivision ==
    /\ e_pc = "start"
    /\ FirstEnumerationRaises(poly_a, poly_b)
    /\ e_pc' = "ZeroDivisionError"
    /\ UNCHANGED <<poly_a, poly_b, print_results, cache, outer_i, counter, results>>
    /\ UNCHANGED NotEnum

\* the counter after one iteration of a streaming loop
CounterAfter(r) ==
    IF r.skipped THEN counter + Len(cache)
    ELSE IF print_results THEN counter + Len(cache)
    ELSE counter

\* for a_coef in a_coef_iter
EnumStreamA ==
    /\ e_pc = "stream_a"
    /\ outer_i <= Len(get_iterator(poly_a))
    /\ LET r == StreamA(get_iterator(poly_a)[outer_i], cache, s, key_factor) IN
          /\ results' = results \o r.found
          /\ counter' = CounterAfter(r)
    /\ outer_i' = outer_i + 1
    /\ UNCHANGED <<poly_a, poly_b, print_results, cache, e_pc>>
    /\ UNCHANGED NotEnum

\* for b_coef in b_coef_iter
EnumStreamB ==
    /\ e_pc = "stream_b"
    /\ outer_i <= Len(get_iterator(poly_b))
    /\ LET r == StreamB(get_iterator(poly_b)[outer_i], cache, s, key_factor) IN
          /\ results' = results \o r.found
          /\ counter' = CounterAfter(r)
    /\ outer_i' = outer_i + 1
    /\ UNCHANGED <<poly_a, poly_b, print_results, cache, e_pc>>
    /\ UNCHANGED NotEnum

\* return results
EnumReturn ==
    /\ \/ e_pc = "stream_a" /\ outer_i > Len(get_iterator(poly_a))
       \/ e_pc = "stream_b" /\ outer_i > Len(get_iterator(poly_b))
    /\ e_pc' = "done"
    /\ UNCHANGED <<poly_a, poly_b, print_results, cache, outer_i, counter, results>>
    /\ UNCHANGED NotEnum

EnumNext ==
    \/ EnumCacheB \/ EnumCacheA \/ EnumZeroDivision
    \/ EnumStreamA \/ EnumStreamB \/ EnumReturn

----------------------------------------------------------------------------
(* Specification SpecRefine: __refine_results on lists of the Matches that   *)
(* a first enumeration finds                                                 *)

\* the compact polynomials whose Matches the lists are made of
RefinePolyA == <<<<0, 1>>, <<1>>>>
RefinePolyB == <<<<1, 2>>, <<0, 1>>>>

MatchPool ==
    SeqRange(first_enumeration(RefinePolyA, RefinePolyB, s, key_factor))

RefineInit ==
    /\ \E R \in 1..MaxRange, kf \in KeyFactors : HashBuilt(R, <<ConstE>>, kf)
    /\ \E n \in 0..MaxMatches : intermediate_results \in [1..n -> MatchPool]
    /\ constant_vals \in {<<ConstE>>, <<ConstEVerify>>}
    /\ refined = <<>>
    /\ refined_again = <<>>
    /\ refined_refined = <<>>

\* a run on the list
Refine ==
    /\ refined = <<>>
    /\ refined' = <<refine_results(intermediate_results, s, constant_vals)>>
    /\ UNCHANGED <<intermediate_results, constant_vals, refined_again, refined_refined>>
    /\ UNCHANGED NotRefine

\* a second run on the same list
RefineAgain ==
    /\ refined_again = <<>>
    /\ refined_again' = <<refine_results(intermediate_results, s, constant_vals)>>
    /\ UNCHANGED <<intermediate_results, constant_vals, refined, refined_refined>>
    /\ UNCHANGED NotRefine

\* a run on the output of the first
RefineRefined ==
    /\ refined # <<>>
    /\ refined_refined = <<>>
    /\ refined_refined' = <<refine_results(refined[1], s, constant_vals)>>
    /\ UNCHANGED <<intermediate_results, constant_vals, refined, refined_again>>
    /\ UNCHANGED NotRefine

RefineNext == Refine \/ RefineAgain \/ RefineRefined

----------------------------------------------------------------------------
(* Specification SpecPersist: calls of save and load_from in one process *)

\* the tables of the model: two that differ in their keys, and two that
\* differ in their threshold
Tables ==
    {TableObject(1, <<ConstE>>, 10), TableObject(1, <<ConstPi>>, 10),
     TableObject(1, <<ConstE>>, 100)}

\* a fresh process; files of earlier processes may exist
PersistInit ==
    /\ g_hash_instance = GlobalHashTableInstance
    /\ files \in [Paths -> {<<>>} \cup {<<t>> : t \in Tables}]
    /\ p_last = NoCall
    /\ saved = [p \in Paths |-> <<>>]

\* t.save(name)
Save ==
    \E t \in Tables, name \in Paths :
        LET after == save(t, name, g_hash_instance, files) IN
        /\ g_hash_instance' = after.g
        /\ files' = after.files
        /\ p_last' = [op |-> "save", name |-> name, ret |-> <<>>, raised |-> ""]
        /\ saved' = [saved EXCEPT ![name] = <<t>>]
        /\ UNCHANGED NotPersist

\* LHSHashTable.load_from(name)
LoadFrom ==
    \E name \in Paths :
        LET after == load_from(name, g_hash_instance, files) IN
        /\ g_hash_instance' = after.g
        /\ p_last' = [op |-> "load_from", name |-> name,
                      ret |-> after.ret, raised |-> after.raised]
        /\ UNCHANGED <<files, saved>>
        /\ UNCHANGED NotPersist

PersistNext == Save \/ LoadFrom

----------------------------------------------------------------------------
(* Specification SpecEngine: the life of one EnumerateOverGCF object, with   *)
(* the working precision: __init__, then calls of find_hits and              *)
(* print_results, between which the caller may set the precision. A step    *)
(* that runs code of a with block either completes or raises.                *)

\* precisions a caller works at: the default, 30 digits, and enum_dps itself
CallerPrecs == {DefaultPrec, dps_to_prec(30), dps_to_prec(enum_dps)}

\* the arguments of find_hits in this specification
EnginePolyA == {RefinePolyA, << <<>>, <<0, 1>> >>}

NotEngine == <<gvars, cache, outer_i, counter, e_pc, refined_again, refined_refined,
               files, p_last, saved, wvars>>

EngineInit ==
    /\ mp_prec \in CallerPrecs
    /\ caller_prec = mp_prec
    /\ origp = <<>>
    /\ x_pc = "new"
    /\ x_last = "none"
    /\ convergence_rate = FALSE
    /\ x_i = 0
    \* the arguments of __init__; self.hash_table is not set yet
    /\ search_range \in 1..MaxRange
    /\ const_vals = <<ConstE>>
    /\ key_factor = Pow10(1)
    /\ s = EmptyDict /\ c_top_i = 0 /\ c_bottom_i = 0
    /\ h_pc = "idle" /\ h_last = "idle"
    /\ saved_hash \in {<<>>} \cup {<<p>> : p \in Paths}
    \* a file of an earlier process may hold the table of these arguments
    /\ g_hash_instance = GlobalHashTableInstance
    /\ \E present \in SUBSET Paths :
          files = [p \in Paths |->
                     IF p \in present
                     THEN <<TableObject(search_range, const_vals, key_factor)>>
                     ELSE <<>>]
    /\ p_last = NoCall
    /\ saved = [p \in Paths |-> <<>>]

\* __init__, saved_hash is None: with mpmath.workdps(self.enum_dps)
InitBuildEnter ==
    /\ x_pc = "new"
    /\ saved_hash = <<>>
    /\ LET in == WorkdpsEnter(mp_prec, origp, enum_dps) IN
          mp_prec' = in.prec /\ origp' = in.origp
    /\ x_pc' = "init_build"
    /\ UNCHANGED <<caller_prec, x_last, saved_hash, convergence_rate, x_i>>
    /\ UNCHANGED <<hvars, poly_a, poly_b, print_results, results,
                   intermediate_results, constant_vals, refined, g_hash_instance>>
    /\ UNCHANGED NotEngine

\* the block of __init__: the constants and the table are computed, or an
\* exception leaves the block
InitBuildExit ==
    /\ x_pc = "init_build"
    /\ LET out == WorkdpsExit(mp_prec, origp) IN
          mp_prec' = out.prec /\ origp' = out.origp
    /\ \/ /\ s' = LHSHashTable(search_range, const_vals, key_factor)
          /\ c_top_i' = ProductSize(Len(const_vals) + 1, search_range)
          /\ h_pc' = "done" /\ h_last' = "built"
          /\ x_pc' = "ready" /\ x_last' = "init returned"
       \/ /\ UNCHANGED <<s, c_top_i, h_pc, h_last>>
          /\ x_pc' = "raised" /\ x_last' = "init raised"
    /\ UNCHANGED <<caller_prec, saved_hash, convergence_rate, x_i>>
    /\ UNCHANGED <<key_factor, search_range, const_vals, c_bottom_i>>
    /\ UNCHANGED <<poly_a, poly_b, print_results, results,
                   intermediate_results, constant_vals, refined, g_hash_instance>>
    /\ UNCHANGED NotEngine

\* __init__, else: self.hash_table = LHSHashTable.load_from(saved_hash)
InitLoad ==
    /\ x_pc = "new"
    /\ saved_hash # <<>>
    /\ LET r == load_from(saved_hash[1], g_hash_instance, files) IN
          /\ g_hash_instance' = r.g
          /\ IF r.raised # ""
             THEN /\ x_pc' = "raised" /\ x_last' = "init raised"
                  /\ UNCHANGED <<s, c_top_i, h_pc, h_last>>
             ELSE /\ x_pc' = "ready" /\ x_last' = "init returned"
                  /\ s' = r.ret[1].s
                  /\ c_top_i' = ProductSize(Len(const_vals) + 1, search_range)
                  /\ h_pc' = "done" /\ h_last' = "loaded"
    /\ UNCHANGED <<mp_prec, origp, caller_prec, saved_hash, convergence_rate, x_i>>
    /\ UNCHANGED <<key_factor, search_range, const_vals, c_bottom_i>>
    /\ UNCHANGED <<poly_a, poly_b, print_results, results,
                   intermediate_results, constant_vals, refined>>
    /\ UNCHANGED NotEngine

\* the caller sets mp.prec between two calls
SetPrec ==
    /\ x_pc = "ready"
    /\ \E prec \in CallerPrecs \ {mp_prec} :
          mp_prec' = prec /\ caller_prec' = prec
    /\ x_last' = "precision set"
    /\ UNCHANGED <<origp, x_pc, saved_hash, convergence_rate, x_i>>
    /\ UNCHANGED <<hvars, poly_a, poly_b, print_results, results,
                   intermediate_results, constant_vals, refined, g_hash_instance>>
    /\ UNCHANGED NotEngine

\* find_hits(poly_a, poly_b, print_results): with mpmath.workdps(self.enum_dps)
FindHitsEnter ==
    /\ x_pc = "ready"
    /\ poly_a' \in EnginePolyA
    /\ poly_b' = RefinePolyB
    /\ print_results' \in BOOLEAN
    /\ results' = <<>> /\ intermediate_results' = <<>> /\ refined' = <<>>
    /\ constant_vals' = <<>>
    /\ LET in == WorkdpsEnter(mp_prec, origp, enum_dps) IN
          mp_prec' = in.prec /\ origp' = in.origp
    /\ x_pc' = "first_pass"
    /\ x_last' = "find_hits called"
    /\ UNCHANGED <<caller_prec, saved_hash, convergence_rate, x_i>>
    /\ UNCHANGED <<hvars, g_hash_instance>>
    /\ UNCHANGED NotEngine

\* the first block of find_hits: __first_enumeration returns and the second
\* block, with mpmath.workdps(self.verify_dps*2), is entered; or an exception
\* leaves the first block
FirstPassExit ==
    /\ x_pc = "first_pass"
    /\ LET out == WorkdpsExit(mp_prec, origp) IN
          \/ /\ ~FirstEnumerationRaises(poly_a, poly_b)
             /\ results' = first_enumeration(poly_a, poly_b, s, key_factor)
             /\ LET in == WorkdpsEnter(out.prec, out.origp, verify_dps * 2) IN
                   mp_prec' = in.prec /\ origp' = in.origp
             /\ x_pc' = "verify"
             /\ UNCHANGED x_last
          \/ /\ mp_prec' = out.prec /\ origp' = out.origp
             /\ x_pc' = "raised" /\ x_last' = "find_hits raised in the first pass"
             /\ UNCHANGED results
    /\ UNCHANGED <<caller_prec, saved_hash, convergence_rate, x_i>>
    /\ UNCHANGED <<hvars, poly_a, poly_b, print_results,
                   intermediate_results, constant_vals, refined, g_hash_instance>>
    /\ UNCHANGED NotEngine

\* the second block of find_hits: __refine_results returns and find_hits
\* returns its list; or an exception leaves the block
VerifyExit ==
    /\ x_pc = "verify"
    /\ LET out == WorkdpsExit(mp_prec, origp) IN
          mp_prec' = out.prec /\ origp' = out.origp
    /\ \/ /\ intermediate_results' = results
          /\ constant_vals' = <<ConstEVerify>>
          /\ refined' = <<refine_results(results, s, <<ConstEVerify>>)>>
          /\ x_pc' = "ready" /\ x_last' = "find_hits returned"
       \/ /\ UNCHANGED <<intermediate_results, constant_vals, refined>>
          /\ x_pc' = "raised" /\ x_last' = "find_hits raised in the verification"
    /\ UNCHANGED <<caller_prec, saved_hash, convergence_rate, x_i>>
    /\ UNCHANGED <<hvars, poly_a, poly_b, print_results, results, g_hash_instance>>
    /\ UNCHANGED NotEngine

\* print_results(results, latex, convergence_rate) on what find_hits returned
PrintResultsCall ==
    /\ x_pc = "ready"
    /\ refined # <<>>
    /\ convergence_rate' \in BOOLEAN
    /\ x_i' = 1
    /\ x_pc' = "print"
    /\ x_last' = "print_results called"
    /\ UNCHANGED <<mp_prec, origp, caller_prec, saved_hash>>
    /\ UNCHANGED <<hvars, poly_a, poly_b, print_results, results,
                   intermediate_results, constant_vals, refined, g_hash_instance>>
    /\ UNCHANGED NotEngine

\* for r in formatted_results, convergence_rate is False: r is printed
PrintOne ==
    /\ x_pc = "print"
    /\ x_i <= Len(refined[1])
    /\ ~convergence_rate
    /\ x_i' = x_i + 1
    /\ UNCHANGED <<mp_prec, origp, caller_prec, x_pc, x_last, saved_hash, convergence_rate>>
    /\ UNCHANGED <<hvars, poly_a, poly_b, print_results, results,
                   intermediate_results, constant_vals, refined, g_hash_instance>>
    /\ UNCHANGED NotEngine

\* if convergence_rate: with mpmath.workdps(self.verify_dps)
PrintRateEnter ==
    /\ x_pc = "print"
    /\ x_i <= Len(refined[1])
    /\ convergence_rate
    /\ LET in == WorkdpsEnter(mp_prec, origp, verify_dps) IN
          mp_prec' = in.prec /\ origp' = in.origp
    /\ x_pc' = "rate"
    /\ UNCHANGED <<caller_prec, x_last, saved_hash, convergence_rate, x_i>>
    /\ UNCHANGED <<hvars, poly_a, poly_b, print_results, results,
                   intermediate_results, constant_vals, refined, g_hash_instance>>
    /\ UNCHANGED NotEngine

\* calculate_convergence returns and the rate is printed, or it raises
PrintRateExit ==
    /\ x_pc = "rate"
    /\ LET out == WorkdpsExit(mp_prec, origp) IN
          mp_prec' = out.prec /\ origp' = out.origp
    /\ \/ x_i' = x_i + 1 /\ x_pc' = "print" /\ UNCHANGED x_last
       \/ x_pc' = "raised" /\ x_last' = "print_results raised" /\ UNCHANGED x_i
    /\ UNCHANGED <<caller_prec, saved_hash, convergence_rate>>
    /\ UNCHANGED <<hvars, poly_a, poly_b, print_results, results,
                   intermediate_results, constant_vals, refined, g_hash_instance>>
    /\ UNCHANGED NotEngine

\* the loop of print_results is over
PrintReturn ==
    /\ x_pc = "print"
    /\ x_i > Len(refined[1])
    /\ x_pc' = "ready"
    /\ x_last' = "print_results returned"
    /\ UNCHANGED <<mp_prec, origp, caller_prec, saved_hash, convergence_rate, x_i>>
    /\ UNCHANGED <<hvars, poly_a, poly_b, print_results, results,
                   intermediate_results, constant_vals, refined, g_hash_instance>>
    /\ UNCHANGED NotEngine

EngineNext ==
    \/ InitBuildEnter \/ InitBuildExit \/ InitLoad \/ SetPrec
    \/ FindHitsEnter \/ FirstPassExit \/ VerifyExit
    \/ PrintResultsCall \/ PrintOne \/ PrintRateEnter \/ PrintRateExit \/ PrintReturn

----------------------------------------------------------------------------
(* Specification SpecWrapper: one run of multi_core_enumeration_wrapper in a *)
(* fresh process, the workers in any order                                   *)

\* the poly_a of the runs: two coefficients, one coefficient, and a first
\* range shorter than the number of workers
WrapperPolyA ==
    {<<<<0, 1>>, <<0, 1>>>>, <<<<0, 1>>, <<1>>>>, <<<<0, 1>>>>, <<<<1>>, <<0, 1>>>>}

\* manual tiles: up to MaxTileDims tile sizes in 1..MaxTile
ManualSplits ==
    UNION {[1..n -> 1..MaxTile] : n \in 1..MaxTileDims}

WorkerIds == 0..(w_args.num_cores - 1)

\* the constant, the range and the key factor of the runs, and
\* EnumerateOverGCF(sym_constant, lhs_search_limit).hash_table for them
WrapperConstant == <<ConstE>>
WrapperRange == MaxRange
WrapperKeyFactor == Pow10(1)
WrapperTable == TableObject(WrapperRange, WrapperConstant, WrapperKeyFactor)

\* the constants and ranges of the runs of one process, and
\* EnumerateOverGCF(sym_constant, lhs_search_limit).hash_table for each
RunInputs ==
    <<[sym_constant |-> WrapperConstant, lhs_search_limit |-> WrapperRange],
      [sym_constant |-> <<ConstPi>>, lhs_search_limit |-> WrapperRange],
      [sym_constant |-> WrapperConstant, lhs_search_limit |-> 1]>>
RunTables ==
    <<WrapperTable,
      TableObject(WrapperRange, <<ConstPi>>, WrapperKeyFactor),
      TableObject(1, WrapperConstant, WrapperKeyFactor)>>

\* the table that the constructor builds from the arguments of a run
TableOfRun(args) ==
    RunTables[CHOOSE i \in DOMAIN RunInputs :
                 /\ RunInputs[i].sym_constant = args.sym_constant
                 /\ RunInputs[i].lhs_search_limit = args.lhs_search_limit]

Pending == [status |-> "pending", poly_a |-> <<>>, results |-> <<>>]

WrapperInit ==
    /\ w_args \in
          [sym_constant : {WrapperConstant},
           lhs_search_limit : {WrapperRange},
           key_factor : {WrapperKeyFactor},
           poly_a : WrapperPolyA,
           poly_b : {RefinePolyB},
           num_cores : 1..MaxCores,
           manual_splits_size : {<<>>} \cup {<<t>> : t \in ManualSplits},
           saved_hash : {<<>>, <<"e_2.p">>},
           create_an_series : {"None", "generator"},
           os_name : {"posix", "nt"}]
    /\ w_pc = "start"
    /\ w_saved_hash = ""
    /\ w_splits = <<>>
    /\ w_results = <<>>
    /\ workers = [i \in WorkerIds |-> Pending]
    /\ w_ret = <<>>
    /\ w_raised = ""
    \* a fresh process; the file of saved_hash may exist
    /\ g_hash_instance = GlobalHashTableInstance
    /\ \E present \in SUBSET {"e_2.p"} :
          files = [p \in Paths |->
                     IF p \in present THEN <<WrapperTable>> ELSE <<>>]
    /\ p_last = NoCall
    /\ saved = [p \in Paths |-> <<>>]

\* the wrapper up to the creation of func: the hash table is built and
\* saved, or loaded, and the tile sizes are set
WrapperPrepare ==
    /\ w_pc = "start"
    /\ IF w_args.saved_hash = <<>> \/ files[w_args.saved_hash[1]] = <<>>
       THEN LET name == IF w_args.saved_hash = <<>> THEN "tmp_hash.p"
                        ELSE w_args.saved_hash[1]
                table == TableOfRun(w_args)
                after == save(table, name, g_hash_instance, files)
            IN  /\ w_saved_hash' = name
                /\ g_hash_instance' = after.g
                /\ files' = after.files
                /\ p_last' = [op |-> "save", name |-> name, ret |-> <<>>, raised |-> ""]
                /\ saved' = [saved EXCEPT ![name] = <<table>>]
       ELSE /\ w_saved_hash' = w_args.saved_hash[1]
            /\ IF w_args.os_name # "nt"
               THEN LET r == load_from(w_args.saved_hash[1], g_hash_instance, files) IN
                    /\ g_hash_instance' = r.g
                    /\ p_last' = [op |-> "load_from", name |-> w_args.saved_hash[1],
                                  ret |-> r.ret, raised |-> r.raised]
               ELSE UNCHANGED <<g_hash_instance, p_last>>
            /\ UNCHANGED <<files, saved>>
    /\ w_splits' = IF w_args.manual_splits_size = <<>>
                   THEN <<Len(w_args.poly_a[1]) \div w_args.num_cores>>
                   ELSE w_args.manual_splits_size[1]
    /\ w_pc' = "run"
    /\ UNCHANGED <<w_args, w_results, workers, w_ret, w_raised>>
    /\ UNCHANGED NotWrapper

\* num_cores == 1: results = func(0), in the process of the wrapper
RunInProcess ==
    /\ w_pc = "run"
    /\ w_args.num_cores = 1
    /\ LET r == multi_core_enumeration(w_args, w_saved_hash, w_splits, 0,
                                       g_hash_instance, files)
       IN  /\ workers' = [workers EXCEPT ![0] =
                            [status |-> r.status, poly_a |-> r.poly_a,
                             results |-> r.results]]
           /\ g_hash_instance' = r.g
           /\ IF r.status = "done"
              THEN w_results' = r.results /\ w_pc' = "present" /\ UNCHANGED w_raised
              ELSE w_raised' = r.status /\ w_pc' = "raised" /\ UNCHANGED w_results
    /\ UNCHANGED <<w_args, w_saved_hash, w_splits, w_ret>>
    /\ UNCHANGED <<files, p_last, saved>>
    /\ UNCHANGED NotWrapper

\* the global instance of a process of the pool: the one of the wrapper's
\* process where processes are forked, a new one where they are spawned
WorkerInstance ==
    IF w_args.os_name = "nt" THEN GlobalHashTableInstance ELSE g_hash_instance

\* pool.map(func, range(num_cores)): one worker runs func(index)
WorkerRun ==
    /\ w_pc = "run"
    /\ w_args.num_cores > 1
    /\ \E index \in WorkerIds :
          /\ workers[index].status = "pending"
          /\ LET r == multi_core_enumeration(w_args, w_saved_hash, w_splits, index,
                                             WorkerInstance, files)
             IN  workers' = [workers EXCEPT ![index] =
                               [status |-> r.status, poly_a |-> r.poly_a,
                                results |-> r.results]]
    /\ UNCHANGED <<w_args, w_pc, w_saved_hash, w_splits, w_results, w_ret, w_raised>>
    /\ UNCHANGED pvars
    /\ UNCHANGED NotWrapper

\* the results of the workers of index i and above, one list after another
RECURSIVE Concat(_, _, _)
Concat(ws, i, n) == IF i >= n THEN <<>> ELSE ws[i].results \o Concat(ws, i + 1, n)

\* pool.map returns the lists of all workers, or raises the exception of a
\* worker that failed
PoolMapEnds ==
    /\ w_pc = "run"
    /\ w_args.num_cores > 1
    /\ \A i \in WorkerIds : workers[i].status # "pending"
    /\ IF \A i \in WorkerIds : workers[i].status = "done"
       THEN /\ w_results' = Concat(workers, 0, w_args.num_cores)
            /\ w_pc' = "present"
            /\ UNCHANGED w_raised
       ELSE /\ \E i \in WorkerIds :
                  workers[i].status # "done" /\ w_raised' = workers[i].status
            /\ w_pc' = "raised"
            /\ UNCHANGED w_results
    /\ UNCHANGED <<w_args, w_saved_hash, w_splits, workers, w_ret>>
    /\ UNCHANGED pvars
    /\ UNCHANGED NotWrapper

\* 'preparing results...': an enumerator is made from saved_hash, the results
\* are printed and returned in latex, one string a result
Present ==
    /\ w_pc = "present"
    /\ IF w_args.create_an_series = "None"
       THEN /\ w_raised' = "AttributeError" /\ w_pc' = "raised"
            /\ UNCHANGED <<g_hash_instance, p_last, w_ret>>
       ELSE LET r == load_from(w_saved_hash, g_hash_instance, files) IN
            /\ g_hash_instance' = r.g
            /\ p_last' = [op |-> "load_from", name |-> w_saved_hash,
                          ret |-> r.ret, raised |-> r.raised]
            /\ IF r.raised # ""
               THEN w_raised' = r.raised /\ w_pc' = "raised" /\ UNCHANGED w_ret
               ELSE w_ret' = <<w_results>> /\ w_pc' = "returned" /\ UNCHANGED w_raised
    /\ UNCHANGED <<w_args, w_saved_hash, w_splits, w_results, workers>>
    /\ UNCHANGED <<files, saved>>
    /\ UNCHANGED NotWrapper

WrapperNext ==
    WrapperPrepare \/ RunInProcess \/ WorkerRun \/ PoolMapEnds \/ Present

----------------------------------------------------------------------------
(* Specification SpecRuns: successive runs of                                *)
(* multi_core_enumeration_wrapper in one process                             *)

\* the number of runs of the process
MaxRuns == 2

\* the arguments of the run-th call: any constant and range with no
\* saved_hash, or the constant and range of the table of "e_2.p" with it
RunArgs(run, os_name) ==
    {a \in [sym_constant : {WrapperConstant, <<ConstPi>>},
            lhs_search_limit : {1, WrapperRange},
            key_factor : {WrapperKeyFactor},
            poly_a : {RefinePolyA},
            poly_b : {RefinePolyB},
            num_cores : 1..MaxCores,
            manual_splits_size : {<<>>},
            saved_hash : {<<>>, <<"e_2.p">>},
            create_an_series : {"generator"},
            os_name : {os_name},
            run : {run}] :
        /\ \E i \in DOMAIN RunInputs :
              /\ RunInputs[i].sym_constant = a.sym_constant
              /\ RunInputs[i].lhs_search_limit = a.lhs_search_limit
        /\ a.saved_hash # <<>> =>
              /\ a.sym_constant = WrapperConstant
              /\ a.lhs_search_limit = WrapperRange}

\* the first call, in a fresh process
RunsInit ==
    /\ \E os_name \in {"posix", "nt"} : w_args \in RunArgs(1, os_name)
    /\ w_pc = "start"
    /\ w_saved_hash = ""
    /\ w_splits = <<>>
    /\ w_results = <<>>
    /\ workers = [i \in WorkerIds |-> Pending]
    /\ w_ret = <<>>
    /\ w_raised = ""
    /\ g_hash_instance = GlobalHashTableInstance
    /\ \E present \in SUBSET {"e_2.p"} :
          files = [p \in Paths |->
                     IF p \in present THEN <<WrapperTable>> ELSE <<>>]
    /\ p_last = NoCall
    /\ saved = [p \in Paths |-> <<>>]

\* the wrapper has returned or raised and the program calls it again: the
\* global instance and the files are those the earlier run left
WrapperCallAgain ==
    /\ w_pc \in {"returned", "raised"}
    /\ w_args.run < MaxRuns
    /\ w_args' \in RunArgs(w_args.run + 1, w_args.os_name)
    /\ w_pc' = "start"
    /\ w_saved_hash' = ""
    /\ w_splits' = <<>>
    /\ w_results' = <<>>
    /\ workers' = [i \in 0..(w_args'.num_cores - 1) |-> Pending]
    /\ w_ret' = <<>>
    /\ w_raised' = ""
    /\ UNCHANGED pvars
    /\ UNCHANGED NotWrapper

RunsNext ==
    \/ WrapperPrepare \/ RunInProcess \/ WorkerRun \/ PoolMapEnds \/ Present
    \/ WrapperCallAgain

----------------------------------------------------------------------------
(* The specifications *)

InitWrapper ==
    /\ WrapperInit /\ GcfIdle /\ HashIdle /\ key_factor = 0
    /\ EnumIdle /\ RefineIdle /\ PrecisionIdle

SpecWrapper == InitWrapper /\ [][WrapperNext]_vars

InitRuns ==
    /\ RunsInit /\ GcfIdle /\ HashIdle /\ key_factor = 0
    /\ EnumIdle /\ RefineIdle /\ PrecisionIdle

SpecRuns == InitRuns /\ [][RunsNext]_vars

InitEngine ==
    /\ EngineInit /\ GcfIdle
    /\ poly_a = <<>> /\ poly_b = <<>> /\ print_results = FALSE /\ cache = <<>>
    /\ outer_i = 0 /\ counter = 0 /\ results = <<>> /\ e_pc = "idle"
    /\ RefineIdle /\ WrapperIdle

SpecEngine == InitEngine /\ [][EngineNext]_vars

InitPersist ==
    /\ PersistInit /\ GcfIdle /\ HashIdle /\ key_factor = 0
    /\ EnumIdle /\ RefineIdle /\ PrecisionIdle
    /\ WrapperIdle

SpecPersist == InitPersist /\ [][PersistNext]_vars

InitHash ==
    HashInit /\ GcfIdle /\ EnumIdle /\ RefineIdle /\ PersistIdle /\ PrecisionIdle
    /\ WrapperIdle

SpecHash == InitHash /\ [][HashNext]_vars

InitEnum ==
    EnumInit /\ GcfIdle /\ RefineIdle /\ PersistIdle /\ PrecisionIdle
    /\ WrapperIdle

SpecEnum == InitEnum /\ [][EnumNext]_vars

GcfNext == GcfCall

InitRefine ==
    RefineInit /\ GcfIdle /\ EnumIdle /\ PersistIdle /\ PrecisionIdle
    /\ WrapperIdle

SpecRefine == InitRefine /\ [][RefineNext]_vars

InitGcf ==
    GcfInit /\ HashIdle /\ EnumIdle /\ RefineIdle /\ PersistIdle /\ PrecisionIdle
    /\ WrapperIdle

SpecGcf == InitGcf /\ [][GcfNext]_vars

----------------------------------------------------------------------------
(* The three-term recurrence and the classical convergent, as the            *)
(* mathematics defines them (n is the mathematical index, a_n = a[n + 1]).   *)

RECURSIVE RecP(_, _, _)
RecP(a, b, n) ==
    IF n = -1 THEN 1
    ELSE IF n = 0 THEN a[1]
    ELSE a[n + 1] * RecP(a, b, n - 1) + b[n] * RecP(a, b, n - 2)

RECURSIVE RecQ(_, _, _)
RecQ(a, b, n) ==
    IF n = -1 THEN 0
    ELSE IF n = 0 THEN 1
    ELSE a[n + 1] * RecQ(a, b, n - 1) + b[n] * RecQ(a, b, n - 2)

\* a_n + b_n / (a_{n+1} + b_{n+1} / (... + b_{L-1} / a_L)) as <<num, den>>,
\* or <<>> when a division by zero makes it undefined
RECURSIVE Nested(_, _, _)
Nested(a, b, n) ==
    IF n = Len(a) - 1 THEN <<a[n + 1], 1>>
    ELSE LET t == Nested(a, b, n + 1) IN
         IF t = <<>> \/ t[1] = 0 THEN <<>>
         ELSE <<a[n + 1] * t[1] + b[n + 1] * t[2], t[1]>>

GcfDepth == Len(a_) - 1

\* C4 (as amended): after the loop p = p_L and q = q_L of the three-term
\* recurrence; when q_L # 0 and the nested fraction is defined p/q equals it;
\* and the returned key is (p_L/q_L) * key_factor truncated toward zero: its
\* floor for a convergent >= 0 and its ceiling for a negative one.
C4_RecurrenceAndTruncatedKey ==
    gcf_ret # <<>> =>
        LET r == gcf_ret[1]
            P == RecP(a_, b_, GcfDepth)
            Q == RecQ(a_, b_, GcfDepth)
            t == Nested(a_, b_, 0)
        IN  /\ r.p = P
            /\ r.q = Q
            /\ (Q # 0 /\ t # <<>>) => P * t[2] = Q * t[1]
            /\ Q # 0 =>
                  r.key = IF (P >= 0) = (Q > 0) \/ P = 0
                          THEN Floor(P * key_factor, Q)
                          ELSE -Floor(-(P * key_factor), Q)

\* C4 witness: a negative convergent of depth >= 2 whose scaled value is no
\* integer has been evaluated, and equals the defined nested fraction
C4_Witness ==
    /\ gcf_ret # <<>>
    /\ GcfDepth >= 2
    /\ gcf_ret[1].q # 0
    /\ gcf_ret[1].p * gcf_ret[1].q < 0
    /\ (gcf_ret[1].p * key_factor) % Abs(gcf_ret[1].q) # 0
    /\ Nested(a_, b_, 0) # <<>>

\* C4 as stated: the returned key is the floor of (p_L/q_L) * key_factor
C4_FloorKey ==
    (gcf_ret # <<>> /\ gcf_ret[1].q # 0) =>
        gcf_ret[1].key =
            Floor(RecP(a_, b_, GcfDepth) * key_factor, RecQ(a_, b_, GcfDepth))

----------------------------------------------------------------------------
(* Claims about the LHS hash table *)

\* the (top, bottom) pairs the two loops have gone through so far
Passed(ti, bi) ==
    \/ ti < c_top_i
    \/ ti = c_top_i /\ h_pc = "bottom" /\ bi < c_bottom_i

NonZeroCoefs == CoefRange(search_range) \ {0}

\* the value of a pair is one of the rationals p/q, p, q in [-R, R] \ {0}
IsSmallRational(val) ==
    \E p \in NonZeroCoefs, q \in NonZeroCoefs : val[1] * q = p * val[2]

\* a tuple (p, 0, ..., 0)
RationalOnly(c) == \A i \in 2..Len(c) : c[i] = 0

\* C3: at every point of the construction and after it, no stored key is the
\* key of a rational p/q with p, q in [-R, R] \ {0}, and no stored pair is a
\* rational-only pair or has such a rational as its value: their keys are
\* in the blacklist.
C3_BlacklistSound ==
    h_pc # "idle" =>
        /\ LET blacklist == RationalBlacklist(search_range, key_factor) IN
           \A p \in NonZeroCoefs, q \in NonZeroCoefs :
              /\ IntTrunc(p * key_factor, q) \notin DOMAIN s
              /\ IntTrunc(p * key_factor, q) \in blacklist
        /\ \A k \in DOMAIN s :
              /\ ~(RationalOnly(s[k][1]) /\ RationalOnly(s[k][2]))
              /\ ~IsSmallRational(evaluate(s[k], const_vals))

\* C3 witness: the construction has just met a coprime pair with a constant
\* in its numerator and its denominator whose value is one of the rationals
\* p/q, and has dropped it for its blacklisted key; the dict is not empty
C3_Witness ==
    /\ h_last = "blacklisted"
    /\ s # EmptyDict
    /\ \E ti \in 0..c_top_i, bi \in 0..(ProductSize(NumCoefs, search_range) - 1) :
          LET t == ProductAt(ti, NumCoefs, search_range)
              b == ProductAt(bi, NumCoefs, search_range)
          IN  /\ Passed(ti, bi) /\ ~Passed(ti, bi + 1)
              /\ ~RationalOnly(t) /\ ~RationalOnly(b)
              /\ IsSmallRational(evaluate(<<t, b>>, const_vals))

\* C6 (as amended): every key of the dict is the value of its stored pair,
\* re-evaluated by evaluate() from the same constant values, times
\* key_factor, truncated toward zero: the floor for a positive value, the
\* ceiling for a negative one.
C6_KeyIsTruncatedValue ==
    \A k \in DOMAIN s :
        LET val == evaluate(s[k], const_vals) IN
        /\ val # <<>>
        /\ k = IF val[1] >= 0 THEN Floor(val[1] * key_factor, val[2])
                ELSE -Floor(-(val[1] * key_factor), val[2])

\* C6 witness: the finished dict holds an entry of negative value whose
\* scaled value is no integer, and one of positive value
C6_Witness ==
    /\ h_pc = "done"
    /\ \E k \in DOMAIN s :
          LET val == evaluate(s[k], const_vals) IN
          val[1] < 0 /\ (val[1] * key_factor) % val[2] # 0
    /\ \E k \in DOMAIN s : evaluate(s[k], const_vals)[1] > 0

\* C6 as stated: every key is the floor of the re-evaluated value times
\* key_factor, for negative values too
C6_KeyIsFloor ==
    \A k \in DOMAIN s :
        LET val == evaluate(s[k], const_vals) IN
        k = Floor(val[1] * key_factor, val[2])

\* the value of a coefficient tuple: c . (1, constants)
TupleValue(c) == prod(c, const_vals)

\* the components of top and bottom are not all 0, and no integer above 1
\* divides every one of them: their gcd is 1
NoCommonDivisor(top, bottom) ==
    /\ \E i \in DOMAIN (top \o bottom) : (top \o bottom)[i] # 0
    /\ \A d \in 2..search_range :
          \E i \in DOMAIN (top \o bottom) : (top \o bottom)[i] % d # 0

\* the key of the value of (top, bottom), for a bottom of non-zero value
PairKey(top, bottom) ==
    KeyOf(RDiv(TupleValue(top), TupleValue(bottom)), key_factor)

\* C13: every entry of the dict, at every point of the construction and
\* after it, has a top of positive value, a bottom of non-zero value,
\* components in [-R, R] with no common divisor, one component per constant
\* and one more, and a key that is not in the rational blacklist.
C13_EntriesCanonical ==
    LET blacklist == RationalBlacklist(search_range, key_factor) IN
    \A k \in DOMAIN s :
        LET top == s[k][1]
            bottom == s[k][2]
        IN  /\ Len(top) = NumCoefs /\ Len(bottom) = NumCoefs
            /\ \A i \in 1..NumCoefs :
                  top[i] \in CoefRange(search_range) /\ bottom[i] \in CoefRange(search_range)
            /\ TupleValue(top)[1] > 0
            /\ TupleValue(bottom)[1] # 0
            /\ NoCommonDivisor(top, bottom)
            /\ k \notin blacklist

\* C13 witness: a finished dict of several entries, built over a range in
\* which pairs with a common divisor exist, one of them with a key that is
\* not blacklisted and a top of positive value
C13_Witness ==
    /\ h_pc = "done"
    /\ Cardinality(DOMAIN s) >= 2
    /\ \E ti, bi \in 0..(ProductSize(NumCoefs, search_range) - 1) :
          LET t == ProductAt(ti, NumCoefs, search_range)
              b == ProductAt(bi, NumCoefs, search_range)
          IN  /\ ~NoCommonDivisor(t, b)
              /\ TupleValue(t)[1] > 0 /\ TupleValue(b)[1] # 0
              /\ PairKey(t, b) \notin RationalBlacklist(search_range, key_factor)

\* the positions ti * size + bi, in the order of the enumeration (tops in
\* product order outside, bottoms in product order inside), of the pairs
\* that the construction does not skip
Writes ==
    LET size == ProductSize(NumCoefs, search_range)
        blacklist == RationalBlacklist(search_range, key_factor)
    IN  {n \in 0..(size * size - 1) :
            LET t == ProductAt(n \div size, NumCoefs, search_range)
                b == ProductAt(n % size, NumCoefs, search_range)
            IN  /\ TupleValue(t)[1] > 0
                /\ NoCommonDivisor(t, b)
                /\ TupleValue(b)[1] # 0
                /\ PairKey(t, b) \notin blacklist}

\* the key written at position n
KeyAt(n) ==
    LET size == ProductSize(NumCoefs, search_range) IN
    PairKey(ProductAt(n \div size, NumCoefs, search_range),
            ProductAt(n % size, NumCoefs, search_range))

\* the place of the tuple c in the product order: its digits in base 2R + 1
RECURSIVE PlaceOf(_, _)
PlaceOf(c, R) ==
    IF c = <<>> THEN 0
    ELSE PlaceOf(SubSeq(c, 1, Len(c) - 1), R) * (2 * R + 1) + c[Len(c)] + R

\* the position of a stored pair in the order of the enumeration
PositionOf(entry) ==
    PlaceOf(entry[1], search_range) * ProductSize(NumCoefs, search_range)
        + PlaceOf(entry[2], search_range)

\* C16: the finished dict has one pair per key; the pair under key k is a
\* pair of key k that the construction did not skip, and no pair of key k
\* that was not skipped comes after it in the order of the enumeration (tops
\* in product order outside, bottoms inside): the last write wins. Every
\* pair that was not skipped has its key in the dict.
C16_LastWriteWins ==
    h_pc = "done" =>
        LET size == ProductSize(NumCoefs, search_range)
            writes == Writes
        IN  /\ \A k \in DOMAIN s :
                  LET at == PositionOf(s[k]) IN
                  /\ at \in writes
                  /\ KeyAt(at) = k
                  /\ s[k] = <<ProductAt(at \div size, NumCoefs, search_range),
                              ProductAt(at % size, NumCoefs, search_range)>>
            /\ \A n \in writes :
                  /\ KeyAt(n) \in DOMAIN s
                  /\ n <= PositionOf(s[KeyAt(n)])

\* C16 witness: the finished dict has a pair that overwrote an earlier pair
\* of the same key, and a pair that is the only one of its key
C16_Witness ==
    /\ h_pc = "done"
    /\ LET writes == Writes IN
       /\ \E n \in writes : n < PositionOf(s[KeyAt(n)])
       /\ \E k \in DOMAIN s :
             \A n \in writes : KeyAt(n) = k => n = PositionOf(s[k])

----------------------------------------------------------------------------
(* Claims about the work split *)

\* how often x is in the list q
Count(q, x) == Cardinality({i \in DOMAIN q : q[i] = x})

\* two lists hold the same elements, each as often
SameBag(q, r) ==
    /\ Len(q) = Len(r)
    /\ \A x \in SeqRange(q) \cup SeqRange(r) : Count(q, x) = Count(r, x)

\* the workers that have cut their slab of poly_a
Sliced == {i \in WorkerIds : workers[i].status \notin {"pending", "IndexError"}}

\* what one worker with the whole poly_a returns: the run with W = 1
SingleWorkerRun ==
    find_hits(w_args.poly_a, w_args.poly_b, WrapperTable.s,
              w_args.key_factor, w_args.sym_constant)

\* C1 as stated: once every worker has cut its slab, every coefficient
\* vector of the whole poly_a is a vector of exactly one slab; and what the
\* wrapper returns holds the Matches of the single-worker run, each once.
C1_SlabsPartitionDomain ==
    /\ (w_pc # "idle" /\ Sliced = WorkerIds) =>
          \A v \in SeqRange(get_iterator(w_args.poly_a)) :
              Cardinality({i \in WorkerIds :
                  v \in SeqRange(get_iterator(workers[i].poly_a))}) = 1
    /\ (w_pc = "returned" /\ SingleWorkerRun.raised = "") =>
          SameBag(w_ret[1], SingleWorkerRun.results)

\* C8 as stated: when a worker has failed and the others are done, the
\* wrapper does not raise: it returns, and what it returns holds the
\* results of the workers that completed.
C8_WorkerFailureContained ==
    (/\ w_pc \in {"returned", "raised"}
     /\ \E i \in WorkerIds : workers[i].status \notin {"pending", "done"}) =>
        /\ w_pc = "returned"
        /\ \A i \in WorkerIds :
              workers[i].status = "done" =>
                  SeqRange(workers[i].results) \subseteq SeqRange(w_ret[1])

\* what worker i returns when it probes the table built from the constant
\* and the range of the run
OwnTableRun(i) ==
    find_hits(workers[i].poly_a, w_args.poly_b, TableOfRun(w_args).s,
              w_args.key_factor, w_args.sym_constant)

\* C17 as stated: in every run of the wrapper in a process, the table that
\* func(0) loads in the process of the wrapper, the table behind the results
\* of every worker, and the table that the presentation step loads are the
\* table built from the constant and the range of that run.
C17_RunUsesOwnTable ==
    /\ (w_pc = "present" /\ w_args.num_cores = 1) =>
          g_hash_instance.hash = TableOfRun(w_args)
    /\ w_pc # "idle" =>
          \A i \in WorkerIds :
              workers[i].status = "done" =>
                  workers[i].results = OwnTableRun(i).results
    /\ w_pc = "returned" =>
          /\ p_last.op = "load_from"
          /\ p_last.ret = <<TableOfRun(w_args)>>

----------------------------------------------------------------------------
(* Claims about save and load_from *)

\* C7 as stated: a load_from(p) that follows a save to p in this process
\* returns a table equal (__eq__) to the table saved to p last
C7_LoadReturnsLastSaved ==
    (p_last.op = "load_from" /\ saved[p_last.name] # <<>>) =>
        /\ p_last.raised = ""
        /\ TableEq(saved[p_last.name][1], p_last.ret[1])

----------------------------------------------------------------------------
(* Claims about the working precision *)

\* C10: during the first pass of find_hits the working precision is enum_dps
\* digits and during its verification 2 * verify_dps digits; in __init__ the
\* table is built at enum_dps and in print_results the rate is measured at
\* verify_dps; and outside these blocks - after a return as after an
\* exception in any of them - no scope is left open and the precision is the
\* one the caller had set.
C10_PrecisionScopedAndRestored ==
    /\ x_pc = "first_pass" => Dps = enum_dps
    /\ x_pc = "verify" => Dps = 2 * verify_dps
    /\ x_pc = "init_build" => Dps = enum_dps
    /\ x_pc = "rate" => Dps = verify_dps
    /\ x_pc \in {"new", "ready", "print", "raised"} =>
          /\ origp = <<>>
          /\ mp_prec = caller_prec
          /\ Dps = prec_to_dps(caller_prec)

\* C10 witness: find_hits has failed in its verification block, at a caller's
\* precision that is neither the one of the first pass nor the default
C10_Witness ==
    /\ x_pc = "raised"
    /\ x_last = "find_hits raised in the verification"
    /\ results # <<>>
    /\ mp_prec = caller_prec
    /\ caller_prec \notin {DefaultPrec, dps_to_prec(enum_dps)}

----------------------------------------------------------------------------
(* Claims about the first enumeration *)

\* the a and b series of a coefficient pair and what the evaluator leaves
PairFinal(a_coef, b_coef) ==
    GcfFinal(create_an_series(a_coef, StreamTerms),
             create_bn_series(b_coef, StreamTerms))

\* C2: when __first_enumeration returns, the Matches it has emitted in the
\* branch it took are, as a set and in number, those of the branch it did
\* not take, run on the same poly_a, poly_b and hash table.
C2_AxisChoiceSameMatches ==
    e_pc = "done" =>
        LET other == IF get_num_iterations(poly_a) > get_num_iterations(poly_b)
                     THEN FirstEnumerationCacheA(poly_a, poly_b, s, key_factor)
                     ELSE FirstEnumerationCacheB(poly_a, poly_b, s, key_factor)
        IN  /\ SeqRange(results) = SeqRange(other)
            /\ Len(results) = Len(other)

\* C2 witness: a finished enumeration that dropped a vector on each axis
\* for a zero (one of them an a series with a_0 = 0 kept) and found Matches,
\* which the other branch emits in another order
C2_Witness ==
    /\ e_pc = "done"
    /\ Len(results) >= 2
    /\ \E i \in DOMAIN results :
          create_an_series(results[i].rhs_an_poly, StreamTerms)[1] = 0
    /\ \E c \in SeqRange(get_iterator(poly_a)) :
          ZeroInFrom1(create_an_series(c, StreamTerms))
    /\ \E c \in SeqRange(get_iterator(poly_b)) :
          ZeroIn(create_bn_series(c, StreamTerms))
    /\ results # (IF get_num_iterations(poly_a) > get_num_iterations(poly_b)
                  THEN FirstEnumerationCacheA(poly_a, poly_b, s, key_factor)
                  ELSE FirstEnumerationCacheB(poly_a, poly_b, s, key_factor))

\* C9 as stated: key 0 is a non-match sentinel: the first enumeration emits no
\* Match for a pair (a, b) whose recurrence ends with q_L = 0
C9_ZeroDenominatorNeverMatches ==
    \A i \in DOMAIN results :
        PairFinal(results[i].rhs_an_poly, results[i].rhs_bn_poly).q # 0

\* the key of the convergent of depth L of the series a and b: the
\* recurrence for n = 1..L over a_0..a_L and b_0..b_(L-1)
ConvergentKey(a, b, L) ==
    IF RecQ(a, b, L) = 0 THEN 0
    ELSE IntTrunc(RecP(a, b, L) * key_factor, RecQ(a, b, L))

\* the coefficient vectors of the two axes
ACoefs == SeqRange(get_iterator(poly_a))
BCoefs == SeqRange(get_iterator(poly_b))

\* C12 (as amended): both series of a pair are generated with
\* g_N_initial_search_terms terms, and the fingerprint of every pair, in the
\* branch that caches b and in the branch that caches a, is the key of the
\* convergent of depth L = g_N_initial_search_terms - 1: the recurrence
\* performs L steps over a_0..a_L and b_0..b_(L-1), and the last term
\* generated for b is not used. Every Match emitted carries that key.
C12_DepthIsTermsMinusOne ==
    LET N == g_N_initial_search_terms
        L == N - 1
    IN  /\ StreamTerms = N
        /\ \A ac \in ACoefs, bc \in BCoefs :
              LET a == create_an_series(ac, N)
                  b == create_bn_series(bc, N)
              IN  /\ Len(a) = L + 1 /\ Len(b) = L + 1
                  /\ efficient_gcf_calculation(a, b, key_factor) = ConvergentKey(a, b, L)
                  /\ efficient_gcf_calculation(a, SubSeq(b, 1, L), key_factor)
                        = ConvergentKey(a, b, L)
        /\ \A i \in DOMAIN results :
              results[i].lhs_key =
                  ConvergentKey(create_an_series(results[i].rhs_an_poly, N),
                                create_bn_series(results[i].rhs_bn_poly, N), L)

\* the Matches whose key is not the key of the convergent of depth
\* g_N_initial_search_terms of their series
NotOfFullDepth ==
    LET N == g_N_initial_search_terms IN
    {i \in DOMAIN results :
        results[i].lhs_key #
            ConvergentKey(create_an_series(results[i].rhs_an_poly, N + 1),
                          create_bn_series(results[i].rhs_bn_poly, N), N)}

\* C12 witness: a finished enumeration has emitted a Match whose key, the
\* key of the convergent of depth g_N_initial_search_terms - 1, is not the
\* key of the convergent one step deeper
C12_Witness ==
    /\ e_pc = "done"
    /\ NotOfFullDepth # {}

\* C12 as stated: the fingerprint is the key of the convergent of depth
\* L = g_N_initial_search_terms: L steps over a_0..a_L (L + 1 terms of a)
\* and b_0..b_(L-1) (L terms of b)
C12_DepthIsInitialTerms == NotOfFullDepth = {}

\* the coefficient vectors of the two axes in the order of their iterators
IterA == get_iterator(poly_a)
IterB == get_iterator(poly_b)

\* the branch taken caches {bn} and streams {an}
StreamsA == get_num_iterations(poly_a) > get_num_iterations(poly_b)

\* the zero policy: a_0 may be 0 but no other term of {a_n}; no term of {b_n}
AllowedA(ac) ==
    LET a == create_an_series(ac, g_N_initial_search_terms) IN
    \A n \in 2..Len(a) : a[n] # 0
AllowedB(bc) ==
    LET b == create_bn_series(bc, g_N_initial_search_terms) IN
    \A n \in 1..Len(b) : b[n] # 0

\* the streaming loop has gone through the pair (IterA[i], IterB[j])
PassedPair(i, j) == IF StreamsA THEN i < outer_i ELSE j < outer_i

\* the key the evaluator returns for a coefficient pair
PairGcfKey(ac, bc) ==
    efficient_gcf_calculation(create_an_series(ac, g_N_initial_search_terms),
                              create_bn_series(bc, g_N_initial_search_terms),
                              key_factor)

\* the vectors of the streamed axis gone through so far that were skipped
\* for a forbidden zero
SkippedSoFar ==
    IF StreamsA
    THEN {i \in 1..(outer_i - 1) : ~AllowedA(IterA[i])}
    ELSE {j \in 1..(outer_i - 1) : ~AllowedB(IterB[j])}

\* C14: in both branches, a pair is probed exactly if its a series has no
\* zero from position 1 on and its b series has no zero: every Match is of
\* such a pair, and every such pair the loops have gone through whose key
\* is in the table has its Match. The cached axis holds the allowed vectors
\* only; a streamed vector with a forbidden zero adds the size of the
\* cached axis to the counter (whether or not progress is printed) and
\* nothing to the results, and the enumeration goes on: the only exception
\* is the division by the size of an empty axis, before the loops.
C14_ZeroPolicy ==
    /\ \A i \in DOMAIN results :
          AllowedA(results[i].rhs_an_poly) /\ AllowedB(results[i].rhs_bn_poly)
    /\ \A i \in DOMAIN IterA, j \in DOMAIN IterB :
          (/\ PassedPair(i, j)
           /\ AllowedA(IterA[i]) /\ AllowedB(IterB[j])
           /\ PairGcfKey(IterA[i], IterB[j]) \in DOMAIN s)
          => \E r \in DOMAIN results :
                /\ results[r].rhs_an_poly = IterA[i]
                /\ results[r].rhs_bn_poly = IterB[j]
    /\ e_pc \in {"stream_a", "stream_b", "done"} =>
          /\ Len(cache) = IF StreamsA
                          THEN Cardinality({j \in DOMAIN IterB : AllowedB(IterB[j])})
                          ELSE Cardinality({i \in DOMAIN IterA : AllowedA(IterA[i])})
          /\ counter = Len(cache) * (IF print_results THEN outer_i - 1
                                     ELSE Cardinality(SkippedSoFar))
    /\ e_pc \notin {"start", "stream_a", "stream_b", "done"} =>
          /\ e_pc = "ZeroDivisionError"
          /\ outer_i = 1
          /\ (IF StreamsA THEN IterB ELSE IterA) = <<>>

\* C14 witness: a finished enumeration without progress printing that
\* skipped a streamed vector for a forbidden zero over a cached axis that is
\* not empty and has lost a vector, and that emitted Matches, one of them of
\* a pair with a_0 = 0
C14_Witness ==
    /\ e_pc = "done"
    /\ ~print_results
    /\ SkippedSoFar # {}
    /\ counter > 0
    /\ Len(cache) < Len(IF StreamsA THEN IterB ELSE IterA)
    /\ \E i \in DOMAIN results :
          create_an_series(results[i].rhs_an_poly, g_N_initial_search_terms)[1] = 0

\* the places of the results at which the Match of (ac, bc) stands
PlacesOf(ac, bc) ==
    {r \in DOMAIN results :
        results[r].rhs_an_poly = ac /\ results[r].rhs_bn_poly = bc}

\* C15: every Match emitted has its a coefficients from the iterator of
\* poly_a, its b coefficients from the iterator of poly_b, the key the
\* evaluator returns for that pair, and a key that is in the table, so the
\* lookup self.hash_table[lhs_key] of the verification succeeds; and every
\* pair the loops have gone through that passes the zero policy and has its
\* key in the table stands in the results exactly once, every other pair
\* not at all.
C15_MatchesExactlyHits ==
    /\ \A r \in DOMAIN results :
          /\ \E i \in DOMAIN IterA : IterA[i] = results[r].rhs_an_poly
          /\ \E j \in DOMAIN IterB : IterB[j] = results[r].rhs_bn_poly
          /\ results[r].lhs_key =
                PairGcfKey(results[r].rhs_an_poly, results[r].rhs_bn_poly)
          /\ results[r].lhs_key \in DOMAIN s
    /\ \A i \in DOMAIN IterA, j \in DOMAIN IterB :
          Cardinality(PlacesOf(IterA[i], IterB[j])) =
              IF /\ PassedPair(i, j)
                 /\ AllowedA(IterA[i]) /\ AllowedB(IterB[j])
                 /\ PairGcfKey(IterA[i], IterB[j]) \in DOMAIN s
              THEN 1 ELSE 0

\* C15 witness: a finished enumeration that emitted several Matches and
\* probed a pair whose key is not in the table
C15_Witness ==
    /\ e_pc = "done"
    /\ Len(results) >= 2
    /\ \E i \in DOMAIN IterA, j \in DOMAIN IterB :
          /\ AllowedA(IterA[i]) /\ AllowedB(IterB[j])
          /\ PairGcfKey(IterA[i], IterB[j]) \notin DOMAIN s

----------------------------------------------------------------------------
(* Claims about the verification *)

\* x is a sub-list of y, in y's order: from x's i-th and y's j-th element on
RECURSIVE IsSubList(_, _, _, _)
IsSubList(x, i, y, j) ==
    IF i > Len(x) THEN TRUE
    ELSE IF j > Len(y) THEN FALSE
    ELSE IF x[i] = y[j] THEN IsSubList(x, i + 1, y, j + 1)
    ELSE IsSubList(x, i, y, j + 1)

\* C5: what __refine_results returns is a sub-list of its argument in the
\* argument's order, holding the accepted Matches and no other; a second run
\* on the same list returns the same list; and a run on its own output
\* returns that output unchanged.
C5_RefineIdempotent ==
    /\ refined # <<>> =>
          /\ IsSubList(refined[1], 1, intermediate_results, 1)
          /\ Len(refined[1]) =
                Cardinality({i \in DOMAIN intermediate_results :
                    RefineOne(intermediate_results[i], s, constant_vals) = "accept"})
    /\ (refined # <<>> /\ refined_again # <<>>) => refined_again = refined
    /\ refined_refined # <<>> => refined_refined = refined

\* C5 witness: all three runs are done on a list of two different Matches
\* or more, of which the verification accepted some and rejected others
C5_Witness ==
    /\ refined # <<>> /\ refined_again # <<>> /\ refined_refined # <<>>
    /\ Len(refined[1]) >= 2
    /\ Len(refined[1]) < Len(intermediate_results)
    /\ refined[1][1] # refined[1][2]

====
